---------------------------- MODULE Spec2Model ----------------------------
(***************************************************************************)
(* Model of the Variant analytics dashboard (src/app/app.py):              *)
(*   - the in-memory session registry _sessions with authenticate,         *)
(*     get_session and logout (specification Spec);                        *)
(*   - the pivot transform process_pivot_data with format_metric_value     *)
(*     (specifications SpecPivot, SpecCells and SpecFormat);               *)
(*   - the pages and their handlers (specifications SpecUI, SpecLoad);     *)
(* and of build_line_chart of src/app/charts.py (specification SpecChart). *)
(* Time is counted in hours.  An optional value (Python None or a value)   *)
(* is a set with no element or one element.                                *)
(***************************************************************************)
EXTENDS Integers, Sequences, FiniteSets, TLC

VARIABLES
    IMPORTS_OK,   \* app.py:20-37, outcome of the guarded imports
    sessions,     \* app.py:63, _sessions: session_id -> record
    now,          \* datetime.now(), in hours
    issued,       \* the tokens secrets.token_hex has returned so far
    last,         \* the last call: its name, argument, return value, time
    pre,          \* _sessions as it was when the last call started
    logins,       \* per user id, the number of successful authenticate calls
    removed_by,   \* session id -> the call that took it out of _sessions
    pivot_data,        \* argument of process_pivot_data
    selected_metrics,  \* argument of process_pivot_data
    is_crystal_ball,   \* argument of process_pivot_data
    pivot_result,      \* what process_pivot_data returned
    pc,                \* "input" before the pivot call, "done" after it
    METRICS_CONFIG,    \* app.py:24-28, imported from config: metric -> settings
    format_args,       \* arguments of format_metric_value
    format_result,     \* <<>> before the call, <<what it returned>> after it
    chart_args,        \* arguments of build_line_chart
    chart_result,      \* <<>> before the call, <<what it returned>> after it
    page,              \* per browser session, the page main_area shows
    session_store,     \* per browser session, the session_store dict
    last_load          \* the last run of load_data, if any

sessionVars == <<IMPORTS_OK, sessions, now, issued, last, pre, logins, removed_by>>
pivotVars == <<pivot_data, selected_metrics, is_crystal_ball, pivot_result, pc>>
formatVars == <<METRICS_CONFIG, format_args, format_result>>
chartVars == <<chart_args, chart_result>>
uiVars == <<page, session_store, last_load>>
functionVars == <<pivotVars, formatVars, chartVars>>
vars == <<IMPORTS_OK, sessions, now, issued, last, pre, logins, removed_by,
          pivot_data, selected_metrics, is_crystal_ball, pivot_result, pc,
          METRICS_CONFIG, format_args, format_result, chart_args, chart_result,
          page, session_store, last_load>>

None == {}
Some(x) == {x}
TheValue(o) == CHOOSE x \in o : TRUE

-----------------------------------------------------------------------------
(* Bounds of the session model *)

MaxTokens == 3      \* number of tokens token_hex can draw from
TickHours == 12     \* the clock advances in steps of this many hours
MaxTime == 48       \* the clock stops here

Tokens == {"t1", "t2", "t3", "t4", "t5"}
TokenNo(t) == CASE t = "t1" -> 1 [] t = "t2" -> 2 [] t = "t3" -> 3
                [] t = "t4" -> 4 [] t = "t5" -> 5
TokenPool == {t \in Tokens : TokenNo(t) <= MaxTokens}

\* session ids a caller may present: the empty string, issued or not
SessionIdArgs == TokenPool \cup {""}

UserIdArgs == {"admin", "viewer", "ghost"}
PasswordArgs == {"admin123", "viewer123", "ADMIN123"}

(* The user directory DEFAULT_USERS is imported from config (app.py:24-28);  *)
(* its entries are the demo credentials shown on the login page.           *)
DEFAULT_USERS ==
    [u \in {"admin", "viewer"} |->
        IF u = "admin"
        THEN [password |-> "admin123", name |-> "Admin", role |-> "admin"]
        ELSE [password |-> "viewer123", name |-> "Viewer", role |-> "viewer"]]

\* timedelta(days=1), in hours
SESSION_TTL == 24

-----------------------------------------------------------------------------
(* Session management, app.py:59-114 *)

NoError == "none"

\* secrets.token_hex(32): 256 random bits, a token never returned before
token_hex == TokenPool \ issued

\* mutant of NewSession: the session lives one hour
NewSession_OneHour(user_id, user, t) ==
    [user_id |-> user_id, name |-> user.name, role |-> user.role,
     expires_at |-> t + 1]

\* the session record authenticate stores, app.py:88-93
NewSession(user_id, user, t) ==
    [user_id |-> user_id, name |-> user.name, role |-> user.role,
     expires_at |-> t + SESSION_TTL]

\* the failure result of authenticate: (False, None, None)
AuthFailure == <<FALSE, None, None>>

\* mutant of AuthFails: the password is not compared
AuthFails_NoPasswordCheck(user_id, password) ==
    \/ ~IMPORTS_OK
    \/ user_id \notin DOMAIN DEFAULT_USERS

\* the three early returns of authenticate, app.py:73-82
AuthFails(user_id, password) ==
    \/ ~IMPORTS_OK
    \/ user_id \notin DOMAIN DEFAULT_USERS
    \/ DEFAULT_USERS[user_id].password # password

\* mutant of StoreSession: a login drops the user's earlier sessions
StoreSession_SingleSession(reg, sid, rec) ==
    [k \in {j \in DOMAIN reg : reg[j].user_id # rec.user_id} \cup {sid} |->
        IF k = sid THEN rec ELSE reg[k]]

\* mutant of StoreSession: a login sweeps the sessions that have expired
StoreSession_SweepExpired(reg, sid, rec) ==
    [k \in {j \in DOMAIN reg : reg[j].expires_at >= rec.expires_at - SESSION_TTL}
            \cup {sid} |->
        IF k = sid THEN rec ELSE reg[k]]

\* _sessions[session_id] = {...}, app.py:88
StoreSession(reg, sid, rec) ==
    [k \in DOMAIN reg \cup {sid} |-> IF k = sid THEN rec ELSE reg[k]]

\* mutant of DeleteSession: the record is left in place
DeleteSession_Keeps(reg, sid) == [reg |-> reg, exc |-> NoError]

\* del _sessions[session_id], app.py:105 and 114: KeyError on a missing key
DeleteSession(reg, sid) ==
    IF sid \in DOMAIN reg
    THEN [reg |-> [k \in DOMAIN reg \ {sid} |-> reg[k]], exc |-> NoError]
    ELSE [reg |-> reg, exc |-> "KeyError"]

\* mutant of Expired: the instant of expiry already counts as expired
Expired_AtExpiry(session, t) == t >= session.expires_at

\* the expiry test of get_session, app.py:104
Expired(session, t) == t > session.expires_at

\* the first test of get_session, app.py:100
NoSuchSession(reg, session_id) == session_id = "" \/ session_id \notin DOMAIN reg

\* mutant of LogoutGuard: the deletion is unconditional
LogoutGuard_Always(reg, session_id) == TRUE

\* the test of logout, app.py:113
LogoutGuard(reg, session_id) == session_id \in DOMAIN reg

\* get_session as a function of the registry and the clock, app.py:98-108
GetSessionResult(reg, session_id, t) ==
    IF NoSuchSession(reg, session_id)
    THEN [reg |-> reg, ret |-> None, exc |-> NoError]
    ELSE IF session_id \notin DOMAIN reg      \* _sessions[session_id], app.py:103
    THEN [reg |-> reg, ret |-> None, exc |-> "KeyError"]
    ELSE IF Expired(reg[session_id], t)
    THEN LET d == DeleteSession(reg, session_id)
         IN  [reg |-> d.reg, ret |-> None, exc |-> d.exc]
    ELSE [reg |-> reg, ret |-> Some(reg[session_id]), exc |-> NoError]

\* mutant of LogoutResult: a logout ends every session of the same user
LogoutResult_WholeUser(reg, session_id) ==
    IF LogoutGuard(reg, session_id)
    THEN [reg |-> [k \in {j \in DOMAIN reg :
                              reg[j].user_id # reg[session_id].user_id} |-> reg[k]],
          exc |-> NoError]
    ELSE [reg |-> reg, exc |-> NoError]

\* logout as a function of the registry, app.py:111-114
LogoutResult(reg, session_id) ==
    IF LogoutGuard(reg, session_id)
    THEN DeleteSession(reg, session_id)
    ELSE [reg |-> reg, exc |-> NoError]

\* ids that left the registry, and by which operation
NoteRemoved(before, after, how) ==
    [k \in DOMAIN removed_by \cup (DOMAIN before \ DOMAIN after) |->
        IF k \in DOMAIN before \ DOMAIN after THEN how ELSE removed_by[k]]

\* one call of authenticate on the registry, app.py:71-95
AuthenticateCall(user_id, password) ==
    /\ pre' = sessions
    /\ IF AuthFails(user_id, password)
       THEN /\ sessions' = sessions
            /\ issued' = issued
            /\ logins' = logins
            /\ last' = [op |-> "authenticate", arg |-> <<user_id, password>>,
                        ret |-> AuthFailure, exc |-> NoError, at |-> now]
       ELSE \E sid \in token_hex :
            /\ sessions' = StoreSession(sessions, sid,
                              NewSession(user_id, DEFAULT_USERS[user_id], now))
            /\ issued' = issued \cup {sid}
            /\ logins' = [logins EXCEPT ![user_id] = @ + 1]
            /\ last' = [op |-> "authenticate", arg |-> <<user_id, password>>,
                        ret |-> <<TRUE, Some(sid), Some(DEFAULT_USERS[user_id])>>,
                        exc |-> NoError, at |-> now]
    /\ removed_by' = NoteRemoved(sessions, sessions', "authenticate")
    /\ UNCHANGED <<IMPORTS_OK, now>>

authenticate(user_id, password) ==
    /\ AuthenticateCall(user_id, password)
    /\ UNCHANGED <<functionVars, uiVars>>

get_session(session_id) ==
    LET r == GetSessionResult(sessions, session_id, now) IN
    /\ pre' = sessions
    /\ sessions' = r.reg
    /\ last' = [op |-> "get_session", arg |-> session_id,
                ret |-> r.ret, exc |-> r.exc, at |-> now]
    /\ removed_by' = NoteRemoved(sessions, r.reg, "get_session")
    /\ UNCHANGED <<IMPORTS_OK, now, issued, logins>>
    /\ UNCHANGED <<functionVars, uiVars>>

\* one call of logout on the registry, app.py:111-114
LogoutCall(session_id) ==
    LET r == LogoutResult(sessions, session_id) IN
    /\ pre' = sessions
    /\ sessions' = r.reg
    /\ last' = [op |-> "logout", arg |-> session_id,
                ret |-> None, exc |-> r.exc, at |-> now]
    /\ removed_by' = NoteRemoved(sessions, r.reg, "logout")
    /\ UNCHANGED <<IMPORTS_OK, now, issued, logins>>

logout(session_id) ==
    /\ LogoutCall(session_id)
    /\ UNCHANGED <<functionVars, uiVars>>

\* the wall clock moves on between two calls
ClockAdvance ==
    /\ now + TickHours <= MaxTime
    /\ now' = now + TickHours
    /\ UNCHANGED <<IMPORTS_OK, sessions, issued, last, pre, logins, removed_by>>

Tick ==
    /\ ClockAdvance
    /\ UNCHANGED <<functionVars, uiVars>>

-----------------------------------------------------------------------------
(* Bounds and inputs of the pivot model *)

MaxRows == 3        \* rows of the records handed to process_pivot_data

\* Python's order of the strings used as app and plan names
StrOrder == <<"A", "B", "P1", "P2">>
StrRank(x) == CHOOSE i \in 1..Len(StrOrder) : StrOrder[i] = x
StrLess(x, y) == StrRank(x) < StrRank(y)

\* (App_Name, Plan_Name) pairs of the input rows
Entities == {<<"A", "P1">>, <<"A", "P2">>, <<"B", "P1">>}

\* Reporting_Date values as <<year, month, day>>; a date column holds either
\* datetime.date objects or ISO texts ("2024-02-01"), never a mix
Dates == {<<2023, 12, 1>>, <<2024, 2, 1>>}
DateTypes == {"date", "str"}
DateValue(type, ymd) == [type |-> type, ymd |-> ymd]

\* raw cell values; a number is held in ten-thousandths
NoneValue == [kind |-> "none", tt |-> 0]
Num(tt) == [kind |-> "num", tt |-> tt]

\* the metric cells one input row can carry: 12.5 and 0.1234, or 7 and None
RowValues ==
    {[Rebills |-> Num(125000), Churn_Rate |-> Num(1234)],
     [Rebills |-> Num(70000), Churn_Rate |-> NoneValue]}

DataMetrics == {"Rebills", "Churn_Rate"}

InputRows ==
    {[App_Name |-> e[1], Plan_Name |-> e[2], Reporting_Date |-> d, m |-> v] :
        e \in Entities, d \in Dates, v \in RowValues}

RECURSIVE SeqsUpTo(_, _)
SeqsUpTo(S, n) ==
    IF n = 0 THEN {<<>>}
    ELSE LET shorter == SeqsUpTo(S, n - 1)
         IN  shorter \cup {Append(q, x) : q \in {r \in shorter : Len(r) = n - 1}, x \in S}

\* the column sets of a record set: an empty dict, one without the date
\* sequence, a complete one
KeyColumns == {"App_Name", "Plan_Name", "Reporting_Date"}
ColumnSets == {{}, {"App_Name", "Plan_Name"} \cup DataMetrics, KeyColumns \cup DataMetrics}

\* the records a caller can pass: None, or a dict of parallel columns
PivotDataArgs ==
    ({None} \cup {Some([columns |-> {}, rows |-> <<>>])})
    \cup {Some([columns |-> c,
                rows |-> [i \in 1..Len(r) |->
                            [r[i] EXCEPT !.Reporting_Date = DateValue(t, @)]]]) :
              c \in ColumnSets \ {{}},
              t \in DateTypes,
              r \in SeqsUpTo(InputRows, MaxRows)}

\* the metric selections a caller can pass; "Refunds" has no column in the data
SelectedMetricsArgs ==
    {<<>>, <<"Rebills">>, <<"Rebills", "Churn_Rate">>,
     <<"Churn_Rate", "Rebills">>, <<"Refunds", "Churn_Rate">>}

(* METRICS_CONFIG is imported from config (app.py:24-28): per metric a      *)
(* display name, a suffix and a format.                                     *)
config_METRICS_CONFIG ==
    [k \in {"Rebills", "Churn_Rate"} |->
        IF k = "Rebills"
        THEN [display |-> "Rebills", suffix |-> "", format |-> "number"]
        ELSE [display |-> "Churn Rate", suffix |-> " (%)", format |-> "percent"]]

-----------------------------------------------------------------------------
(* Helper functions, app.py:132-192 *)

\* Python's round(): n / d to the nearest integer, ties to the even one
RoundHalfEven(n, d) ==
    LET q == n \div d
        r == n % d
    IN  IF 2 * r < d THEN q
        ELSE IF 2 * r > d THEN q + 1
        ELSE IF q % 2 = 0 THEN q ELSE q + 1

\* METRICS_CONFIG.get(metric_name, {}).get("format", "number")
FormatType(metric_name) ==
    IF metric_name \in DOMAIN METRICS_CONFIG
    THEN METRICS_CONFIG[metric_name].format
    ELSE "number"

\* mutant of format_metric_value: a value float() cannot read becomes 0
format_metric_value_ZeroOnError(value, metric_name, cb) ==
    IF value.kind = "none" \/ value.kind = "nan" THEN None
    ELSE IF value.kind # "num" THEN Some(0)
    ELSE IF metric_name = "Rebills" /\ cb
         THEN Some(100 * RoundHalfEven(value.tt, 10000))
    ELSE IF FormatType(metric_name) = "percent"
         THEN Some(RoundHalfEven(value.tt * 100, 100))
    ELSE Some(RoundHalfEven(value.tt, 100))

\* mutant of format_metric_value: the percent test comes before the Rebills test
format_metric_value_PercentFirst(value, metric_name, cb) ==
    IF value.kind = "none" \/ value.kind = "nan" THEN None
    ELSE IF value.kind # "num" THEN None
    ELSE IF FormatType(metric_name) = "percent"
         THEN Some(RoundHalfEven(value.tt * 100, 100))
    ELSE IF metric_name = "Rebills" /\ cb
         THEN Some(100 * RoundHalfEven(value.tt, 10000))
    ELSE Some(RoundHalfEven(value.tt, 100))

\* format_metric_value; the result is None or a number held in hundredths
format_metric_value(value, metric_name, cb) ==
    IF value.kind = "none" \/ value.kind = "nan" THEN None
    ELSE IF value.kind # "num" THEN None            \* float() raises, except: None
    ELSE IF metric_name = "Rebills" /\ cb
         THEN Some(100 * RoundHalfEven(value.tt, 10000))
    ELSE IF FormatType(metric_name) = "percent"
         THEN Some(RoundHalfEven(value.tt * 100, 100))
    ELSE Some(RoundHalfEven(value.tt, 100))

\* get_display_metric_name: the display name and the suffix, joined
get_display_metric_name(metric_name) ==
    IF metric_name \in DOMAIN METRICS_CONFIG
    THEN <<METRICS_CONFIG[metric_name].display, METRICS_CONFIG[metric_name].suffix>>
    ELSE <<metric_name, "">>

\* year, month, day compared in this order
YmdLess(x, y) ==
    \/ x[1] < y[1]
    \/ x[1] = y[1] /\ x[2] < y[2]
    \/ x[1] = y[1] /\ x[2] = y[2] /\ x[3] < y[3]

\* Python's < on two values of a date column: dates by calendar order, ISO
\* texts character by character, which is the same order
DateLess(x, y) == YmdLess(x.ymd, y.ymd)

\* a column label of the result: a fixed column, or a date as text
FixedColumn(name) == [kind |-> "fixed", name |-> name, parts |-> <<>>]

\* mutant of strftime: "%m/%d/%y", the year without its century
strftime_ShortYear(d) ==
    [kind |-> "mdY", name |-> "", parts |-> <<d.ymd[2], d.ymd[3], d.ymd[1] % 100>>]

\* d.strftime("%m/%d/%Y"): month, day, year
strftime(d) == [kind |-> "mdY", name |-> "", parts |-> <<d.ymd[2], d.ymd[3], d.ymd[1]>>]

\* str(d) of a text: the text itself, year-month-day
str(d) == [kind |-> "text", name |-> "", parts |-> d.ymd]

\* date_map[d], app.py:162: strftime when d has it, str(d) otherwise
date_label(d) == IF d.type = "date" THEN strftime(d) ELSE str(d)

\* mutant of NothingToRender: an empty metric selection gives None as well
NothingToRender_OrNoMetrics(data, sel) ==
    \/ data = None
    \/ TheValue(data).columns = {}
    \/ "Reporting_Date" \notin TheValue(data).columns
    \/ Len(TheValue(data).rows) = 0
    \/ Len(sel) = 0

\* the first test of process_pivot_data, app.py:158
NothingToRender(data, sel) ==
    \/ data = None
    \/ TheValue(data).columns = {}
    \/ "Reporting_Date" \notin TheValue(data).columns
    \/ Len(TheValue(data).rows) = 0

\* mutant of SortedDates: ascending, reverse=True forgotten
RECURSIVE SortedDates_Ascending(_)
SortedDates_Ascending(S) ==
    IF S = {} THEN <<>>
    ELSE LET least == CHOOSE x \in S : \A y \in S : ~DateLess(y, x)
         IN  <<least>> \o SortedDates_Ascending(S \ {least})

\* sorted(set(...), reverse=True), app.py:161
RECURSIVE SortedDates(_)
SortedDates(S) ==
    IF S = {} THEN <<>>
    ELSE LET latest == CHOOSE x \in S : \A y \in S : ~DateLess(x, y)
         IN  <<latest>> \o SortedDates(S \ {latest})

unique_dates(rows) == SortedDates({rows[i].Reporting_Date : i \in 1..Len(rows)})

\* the order of (app, plan) tuples: Python compares them component by component
ComboLess(x, y) ==
    \/ StrLess(x[1], y[1])
    \/ x[1] = y[1] /\ StrLess(x[2], y[2])

\* mutant of FirstSeen: the test against the seen set is forgotten
RECURSIVE FirstSeen_NoSeenSet(_, _)
FirstSeen_NoSeenSet(rows, n) ==
    IF n = 0 THEN <<>>
    ELSE Append(FirstSeen_NoSeenSet(rows, n - 1),
                <<rows[n].App_Name, rows[n].Plan_Name>>)

\* the loop of app.py:164-170: the distinct pairs in first-seen order
RECURSIVE FirstSeen(_, _)
FirstSeen(rows, n) ==
    IF n = 0 THEN <<>>
    ELSE LET before == FirstSeen(rows, n - 1)
             combo == <<rows[n].App_Name, rows[n].Plan_Name>>
         IN  IF \E i \in 1..Len(before) : before[i] = combo
             THEN before
             ELSE Append(before, combo)

\* insertion of x into an ascending sequence, after the elements not above it
RECURSIVE InsertCombo(_, _)
InsertCombo(sorted, x) ==
    IF sorted = <<>> THEN <<x>>
    ELSE IF ComboLess(x, Head(sorted)) THEN <<x>> \o sorted
    ELSE <<Head(sorted)>> \o InsertCombo(Tail(sorted), x)

\* list.sort(key=lambda x: (x[0], x[1])), app.py:171
RECURSIVE SortCombos(_)
SortCombos(q) ==
    IF q = <<>> THEN <<>>
    ELSE InsertCombo(SortCombos(SubSeq(q, 1, Len(q) - 1)), q[Len(q)])

\* mutant of plan_combos: the pairs stay in first-seen order
plan_combos_Unsorted(rows) == FirstSeen(rows, Len(rows))

plan_combos(rows) == SortCombos(FirstSeen(rows, Len(rows)))

RowKey(row) == <<row.App_Name, row.Plan_Name, row.Reporting_Date>>

\* the metrics the loop of app.py:178-180 copies from a row
CopiedMetrics(data, sel) ==
    {sel[j] : j \in 1..Len(sel)} \cap TheValue(data).columns

\* mutant of lookup: the first row of a key is kept, later ones are skipped
RECURSIVE lookup_FirstWins(_, _, _)
lookup_FirstWins(data, sel, n) ==
    IF n = 0 THEN <<>>
    ELSE LET before == lookup_FirstWins(data, sel, n - 1)
             row == TheValue(data).rows[n]
             entry == [mt \in CopiedMetrics(data, sel) |-> row.m[mt]]
         IN  IF RowKey(row) \in DOMAIN before
             THEN before
             ELSE [k \in DOMAIN before \cup {RowKey(row)} |->
                      IF k = RowKey(row) THEN entry ELSE before[k]]

\* the loop of app.py:173-180 over the first n rows: key -> metric -> raw value
RECURSIVE lookup(_, _, _)
lookup(data, sel, n) ==
    IF n = 0 THEN <<>>
    ELSE LET before == lookup(data, sel, n - 1)
             row == TheValue(data).rows[n]
             old == IF RowKey(row) \in DOMAIN before THEN before[RowKey(row)] ELSE <<>>
             entry == [mt \in DOMAIN old \cup CopiedMetrics(data, sel) |->
                          IF mt \in CopiedMetrics(data, sel) THEN row.m[mt] ELSE old[mt]]
         IN  [k \in DOMAIN before \cup {RowKey(row)} |->
                 IF k = RowKey(row) THEN entry ELSE before[k]]

\* lookup.get(key, {}).get(metric, None), app.py:188
RawValue(lk, key, metric) ==
    IF key \in DOMAIN lk /\ metric \in DOMAIN lk[key] THEN lk[key][metric] ELSE NoneValue

\* the row dict of app.py:185-189; a later date with the same label overwrites
PivotRow(lk, dates, combo, metric, cb) ==
    [App |-> combo[1], Plan |-> combo[2], Metric |-> get_display_metric_name(metric),
     cells |-> [lab \in {date_label(dates[i]) : i \in 1..Len(dates)} |->
                   LET i == CHOOSE i \in 1..Len(dates) :
                                /\ date_label(dates[i]) = lab
                                /\ \A j \in (i + 1)..Len(dates) : date_label(dates[j]) # lab
                   IN  format_metric_value(
                           RawValue(lk, <<combo[1], combo[2], dates[i]>>, metric),
                           metric, cb)]]

\* the distinct elements of a sequence, each at its first position
RECURSIVE Distinct(_)
Distinct(q) ==
    IF q = <<>> THEN <<>>
    ELSE LET before == Distinct(SubSeq(q, 1, Len(q) - 1))
         IN  IF \E i \in 1..Len(before) : before[i] = q[Len(q)]
             THEN before
             ELSE Append(before, q[Len(q)])

\* pd.DataFrame(rows): the columns are the keys of the row dicts in insertion
\* order; a frame built from no rows has no columns
DataFrame(rows, dates) ==
    [columns |-> IF Len(rows) = 0 THEN <<>>
                 ELSE <<FixedColumn("App"), FixedColumn("Plan"), FixedColumn("Metric")>>
                      \o Distinct([i \in 1..Len(dates) |-> date_label(dates[i])]),
     rows |-> rows]

\* the loops of app.py:182-190: pairs outside, selected metrics inside
PivotRows(lk, dates, combos, sel, cb) ==
    [n \in 1..(Len(combos) * Len(sel)) |->
        PivotRow(lk, dates, combos[((n - 1) \div Len(sel)) + 1],
                 sel[((n - 1) % Len(sel)) + 1], cb)]

\* process_pivot_data, app.py:156-192: None, or the table
process_pivot_data(data, sel, cb) ==
    IF NothingToRender(data, sel) THEN None
    ELSE LET rows == TheValue(data).rows
             dates == unique_dates(rows)
             combos == plan_combos(rows)
             lk == lookup(data, sel, Len(rows))
         IN  Some(DataFrame(PivotRows(lk, dates, combos, sel, cb), dates))

\* one call of process_pivot_data on the arguments chosen at the start
ProcessPivot ==
    /\ pc = "input"
    /\ pivot_result' = process_pivot_data(pivot_data, selected_metrics, is_crystal_ball)
    /\ pc' = "done"
    /\ UNCHANGED <<pivot_data, selected_metrics, is_crystal_ball>>
    /\ UNCHANGED <<sessionVars, formatVars, chartVars, uiVars>>

NoSessions ==
    /\ IMPORTS_OK = TRUE
    /\ sessions = <<>>
    /\ now = 0
    /\ issued = {}
    /\ last = [op |-> "init", arg |-> "", ret |-> None, exc |-> NoError, at |-> 0]
    /\ pre = <<>>
    /\ logins = [u \in UserIdArgs |-> 0]
    /\ removed_by = <<>>

\* no call of process_pivot_data is modelled
NoPivot ==
    /\ pivot_data = None
    /\ selected_metrics = <<>>
    /\ is_crystal_ball = FALSE
    /\ pivot_result = None
    /\ pc = "input"

\* no call of format_metric_value is modelled; the configuration is the
\* one of the config module
NoFormat ==
    /\ METRICS_CONFIG = config_METRICS_CONFIG
    /\ format_args = <<>>
    /\ format_result = <<>>

\* no call of build_line_chart is modelled
NoChart ==
    /\ chart_args = <<>>
    /\ chart_result = <<>>

\* no browser session is modelled
NoUI ==
    /\ page = <<>>
    /\ session_store = <<>>
    /\ last_load = None

InitPivot ==
    /\ pivot_data \in PivotDataArgs
    /\ selected_metrics \in SelectedMetricsArgs
    /\ is_crystal_ball \in BOOLEAN
    /\ pivot_result = None
    /\ pc = "input"
    /\ NoSessions
    /\ NoFormat
    /\ NoChart
    /\ NoUI

NextPivot == ProcessPivot

SpecPivot == InitPivot /\ [][NextPivot]_vars

-----------------------------------------------------------------------------
(* process_pivot_data on records with malformed cells (specification        *)
(* SpecCells)                                                               *)

\* float("nan"), and a text float() cannot read
NaNValue == [kind |-> "nan", tt |-> 0]
TextValue == [kind |-> "text", tt |-> 0]

\* the metric cells one input row can carry: both numeric, or one or both
\* of them None, NaN or a text
MalformedRowValues ==
    {[Rebills |-> Num(125000), Churn_Rate |-> Num(1234)],
     [Rebills |-> NaNValue, Churn_Rate |-> Num(1234)],
     [Rebills |-> TextValue, Churn_Rate |-> NoneValue],
     [Rebills |-> Num(70000), Churn_Rate |-> TextValue]}

MalformedInputRows ==
    {[App_Name |-> e[1], Plan_Name |-> e[2],
      Reporting_Date |-> DateValue("date", d), m |-> v] :
        e \in {<<"A", "P1">>, <<"B", "P1">>}, d \in Dates, v \in MalformedRowValues}

MalformedDataArgs ==
    {Some([columns |-> KeyColumns \cup DataMetrics, rows |-> r]) :
        r \in SeqsUpTo(MalformedInputRows, MaxRows) \ {<<>>}}

InitCells ==
    /\ pivot_data \in MalformedDataArgs
    /\ selected_metrics \in {<<"Rebills">>, <<"Rebills", "Churn_Rate">>,
                              <<"Churn_Rate", "Rebills">>}
    /\ is_crystal_ball \in BOOLEAN
    /\ pivot_result = None
    /\ pc = "input"
    /\ NoSessions
    /\ NoFormat
    /\ NoChart
    /\ NoUI

NextCells == ProcessPivot

SpecCells == InitCells /\ [][NextCells]_vars

-----------------------------------------------------------------------------
(* build_line_chart, charts.py:21-150 (specification SpecChart)             *)

\* plan names and the points one input row can carry; a value is None or a
\* number in ten-thousandths
ChartPlans == {"P1", "P2"}
ChartValues == {NoneValue, Num(50000), Num(30000)}

ChartRows ==
    {[Plan_Name |-> pl, Reporting_Date |-> d, metric_value |-> v] :
        pl \in ChartPlans, d \in Dates, v \in ChartValues}

\* the argument data: None, an empty dict, a dict of parallel lists without
\* Plan_Name, or a complete one (its lists possibly empty)
ChartColumns == {"Plan_Name", "Reporting_Date", "metric_value"}
ChartDataArgs ==
    ({None} \cup {Some([columns |-> {}, rows |-> <<>>])})
    \cup {Some([columns |-> c, rows |-> r]) :
              c \in {ChartColumns, ChartColumns \ {"Plan_Name"}},
              r \in SeqsUpTo(ChartRows, MaxRows)}

\* the argument date_range: None, or a (min_date, max_date) tuple; the first
\* leaves the later date of Dates outside, the second the earlier one
DateRangeArgs ==
    {None, Some(<<<<2023, 12, 1>>, <<2023, 12, 31>>>>),
           Some(<<<<2024, 1, 1>>, <<2024, 3, 1>>>>)}

FormatTypeArgs == {"dollar", "percent", "number"}

NO_DATA_TEXT == "No data available for selected filters"

\* mutant of NoChartData: the length of Plan_Name is not looked at
NoChartData_NoLengthTest(data) ==
    \/ data = None
    \/ TheValue(data).columns = {}
    \/ "Plan_Name" \notin TheValue(data).columns

\* the test of charts.py:37
NoChartData(data) ==
    \/ data = None
    \/ TheValue(data).columns = {}
    \/ "Plan_Name" \notin TheValue(data).columns
    \/ Len(TheValue(data).rows) = 0

\* sorted() of a set of texts
RECURSIVE SortedStrings(_)
SortedStrings(S) ==
    IF S = {} THEN <<>>
    ELSE LET least == CHOOSE x \in S : \A y \in S : ~StrLess(y, x)
         IN  <<least>> \o SortedStrings(S \ {least})

\* the distinct plans in the order the rows name them first
RECURSIVE PlansFirstSeen(_, _)
PlansFirstSeen(rows, n) ==
    IF n = 0 THEN <<>>
    ELSE LET before == PlansFirstSeen(rows, n - 1)
         IN  IF \E i \in 1..Len(before) : before[i] = rows[n].Plan_Name
             THEN before
             ELSE Append(before, rows[n].Plan_Name)

\* mutant of unique_plans: the distinct plans in first-seen order, unsorted
unique_plans_Unsorted(rows) == PlansFirstSeen(rows, Len(rows))

\* sorted(set(data["Plan_Name"])), charts.py:58
unique_plans(rows) == SortedStrings({rows[i].Plan_Name : i \in 1..Len(rows)})

\* value if value is not None else 0, charts.py:70
ValueOrZero(value) == IF value.kind = "none" THEN Num(0) ELSE value

\* plan_data[plan], charts.py:61-70: the (date, value) pairs of the rows of
\* one plan, in input order
RECURSIVE plan_data(_, _, _)
plan_data(rows, plan, n) ==
    IF n = 0 THEN <<>>
    ELSE LET before == plan_data(rows, plan, n - 1)
         IN  IF rows[n].Plan_Name = plan
             THEN Append(before, <<rows[n].Reporting_Date,
                                   ValueOrZero(rows[n].metric_value)>>)
             ELSE before

\* Python's < on (date, value) tuples: by date, then by value
PairLess(x, y) ==
    \/ YmdLess(x[1], y[1])
    \/ x[1] = y[1] /\ x[2].tt < y[2].tt

RECURSIVE InsertPair(_, _)
InsertPair(sorted, x) ==
    IF sorted = <<>> THEN <<x>>
    ELSE IF PairLess(x, Head(sorted)) THEN <<x>> \o sorted
    ELSE <<Head(sorted)>> \o InsertPair(Tail(sorted), x)

\* mutant of sorted_pairs: the pairs stay in input order
sorted_pairs_Unsorted(q) == q

\* sorted(zip(dates, values)), charts.py:81
RECURSIVE sorted_pairs(_)
sorted_pairs(q) ==
    IF q = <<>> THEN <<>>
    ELSE InsertPair(sorted_pairs(SubSeq(q, 1, Len(q) - 1)), q[Len(q)])

\* the go.Scatter trace of one plan, charts.py:80-108
Scatter(rows, plan, format_type) ==
    LET pairs == sorted_pairs(plan_data(rows, plan, Len(rows)))
    IN  [name |-> plan,
         x |-> [i \in 1..Len(pairs) |-> pairs[i][1]],
         y |-> [i \in 1..Len(pairs) |-> pairs[i][2]],
         hover |-> format_type,
         connectgaps |-> FALSE]

\* mutant of xaxis_range: the axis is left to the data
xaxis_range_Auto(date_range) == None

\* charts.py:121
xaxis_range(date_range) ==
    IF date_range # None
    THEN Some(<<TheValue(date_range)[1], TheValue(date_range)[2]>>)
    ELSE None

\* build_line_chart: the figure (its traces, annotations and x-axis range)
\* and the list of plans; display_name and theme do not reach either
build_line_chart(data, format_type, date_range) ==
    IF NoChartData(data)
    THEN [fig |-> [traces |-> <<>>, annotations |-> <<NO_DATA_TEXT>>,
                   xaxis_range |-> None],
          plans |-> <<>>]
    ELSE LET rows == TheValue(data).rows
             plans == unique_plans(rows)
         IN  [fig |-> [traces |-> [k \in 1..Len(plans) |->
                                      Scatter(rows, plans[k], format_type)],
                       annotations |-> <<>>,
                       xaxis_range |-> xaxis_range(date_range)],
              plans |-> plans]

\* one call of build_line_chart on the arguments chosen at the start
BuildChart ==
    /\ chart_result = <<>>
    /\ chart_result' = <<build_line_chart(chart_args.data, chart_args.format_type,
                                           chart_args.date_range)>>
    /\ UNCHANGED chart_args
    /\ UNCHANGED <<sessionVars, pivotVars, formatVars, uiVars>>

InitChart ==
    /\ chart_args \in [data : ChartDataArgs, format_type : FormatTypeArgs,
                        date_range : DateRangeArgs]
    /\ chart_result = <<>>
    /\ NoSessions
    /\ NoPivot
    /\ NoFormat
    /\ NoUI

NextChart == BuildChart

SpecChart == InitChart /\ [][NextChart]_vars

-----------------------------------------------------------------------------
(* format_metric_value on its own, app.py:132-145 (specification SpecFormat) *)

\* raw values: None, NaN, a text, and numbers in ten-thousandths.  A number
\* that lies halfway between two results is one a float holds exactly
\* (x.5 for the integer rule, x.125 and x.375 for two decimals), so that
\* round() decides the tie and not the float's representation error.
RawValueArgs ==
    {NoneValue, NaNValue, TextValue} \cup
    {Num(tt) : tt \in {0, 1234, 1250, 3750, 25000, 35000, 70000, 125000, 0 - 12345}}

\* metric names: configured ones and one the configuration does not list
MetricNameArgs == {"Rebills", "Churn_Rate", "Refunds"}

\* configurations: the one of the config module, one with Rebills as a
\* percent metric, one with Rebills in dollars and Churn_Rate as a number
MetricsConfigs ==
    {config_METRICS_CONFIG,
     [config_METRICS_CONFIG EXCEPT !["Rebills"].format = "percent"],
     [config_METRICS_CONFIG EXCEPT !["Rebills"].format = "dollar",
                                   !["Churn_Rate"].format = "number"]}

\* one call of format_metric_value on the arguments chosen at the start
FormatValue ==
    /\ format_result = <<>>
    /\ format_result' = <<format_metric_value(format_args.value,
                                               format_args.metric_name,
                                               format_args.is_crystal_ball)>>
    /\ UNCHANGED <<METRICS_CONFIG, format_args>>
    /\ UNCHANGED <<sessionVars, pivotVars, chartVars, uiVars>>

InitFormat ==
    /\ METRICS_CONFIG \in MetricsConfigs
    /\ format_args \in [value : RawValueArgs, metric_name : MetricNameArgs,
                         is_crystal_ball : BOOLEAN]
    /\ format_result = <<>>
    /\ NoSessions
    /\ NoPivot
    /\ NoChart
    /\ NoUI

NextFormat == FormatValue

SpecFormat == InitFormat /\ [][NextFormat]_vars

Init ==
    /\ IMPORTS_OK \in BOOLEAN
    /\ sessions = <<>>
    /\ now = 0
    /\ issued = {}
    /\ last = [op |-> "init", arg |-> "", ret |-> None, exc |-> NoError, at |-> 0]
    /\ pre = <<>>
    /\ logins = [u \in UserIdArgs |-> 0]
    /\ removed_by = <<>>
    /\ NoPivot
    /\ NoFormat
    /\ NoChart
    /\ NoUI

Next ==
    \/ \E u \in UserIdArgs, p \in PasswordArgs : authenticate(u, p)
    \/ \E s \in SessionIdArgs : get_session(s)
    \/ \E s \in SessionIdArgs : logout(s)
    \/ Tick

Spec == Init /\ [][Next]_vars


-----------------------------------------------------------------------------
(* The pages and their handlers, app.py:212-629 (specification SpecUI)      *)

\* the browser sessions; each has its own main_area and session_store
UISessions == {"ui1", "ui2"}

\* what the user typed into the login form; either field may be empty
UsernameInputs == {"", "admin", "ghost"}
PasswordInputs == {"", "admin123", "ADMIN123"}

\* pages that show the user's dashboards or a way back to them
GatedViews == {"landing", "icarus", "icarus_error"}

\* what load_pivot_data followed by process_pivot_data gives load_data: an
\* exception of the query source, None, or a table with rows
PivotOutcomes == {"raises", "none", "table"}

\* what the two load_all_chart_data calls give: an exception, or the data
ChartOutcomes == {"raises", "ok"}

\* one run of load_data: whether plans and metrics are ticked, and what the
\* queries give
LoadRun(has_plans, has_metrics, regular, crystal, charts) ==
    [has_plans |-> has_plans, has_metrics |-> has_metrics,
     regular |-> regular, crystal |-> crystal, charts |-> charts]

\* the runs of load_data: nothing ticked, no metric ticked, each query
\* failing in turn, and every mix of None and tables
LoadRuns ==
    {LoadRun(FALSE, TRUE, "table", "table", "ok"),
     LoadRun(TRUE, FALSE, "table", "table", "ok"),
     LoadRun(TRUE, TRUE, "raises", "table", "ok"),
     LoadRun(TRUE, TRUE, "table", "raises", "ok"),
     LoadRun(TRUE, TRUE, "table", "none", "raises")}
    \cup {LoadRun(TRUE, TRUE, r, c, "ok") : r, c \in PivotOutcomes \ {"raises"}}

\* CHART_METRICS is imported from config (app.py:24-28): the charted metrics
CHART_METRICS == <<"Rebills", "Churn_Rate">>

\* the panes of the results area: the spinner, the error panes by their
\* title, and the parts of the rendered results
SPINNER == "LoadingSpinner"
ErrorPanes == {"No Plans Selected", "No Metrics Selected", "No Data",
               "Error Loading Data"}

\* results.clear()
results_clear(r) == <<>>

\* mutant of LoadFailed: the handler does not clear the results area
LoadFailed_NoClear(r) == Append(r, "Error Loading Data")

\* the except branch of load_data, app.py:563-565
LoadFailed(r) == Append(results_clear(r), "Error Loading Data")

\* the tables of app.py:514-529: a table is shown when it is not None
LoadTables(regular, crystal) ==
    (IF regular = "table" THEN <<"Markdown", "Tabulator">> ELSE <<>>)
    \o (IF crystal = "table" THEN <<"Spacer", "Markdown", "Tabulator">> ELSE <<>>)

\* the body of load_data, app.py:478-565, from the results area r it finds:
\* the results area it leaves, and the number of queries it made
load_data_body(r, has_plans, has_metrics, regular, crystal, charts) ==
    LET spinning == Append(results_clear(r), SPINNER)
    IN  IF ~has_plans
        THEN [results |-> Append(results_clear(spinning), "No Plans Selected"),
              queries |-> 0]
        ELSE IF ~has_metrics
        THEN [results |-> Append(results_clear(spinning), "No Metrics Selected"),
              queries |-> 0]
        ELSE IF regular = "raises"
        THEN [results |-> LoadFailed(spinning), queries |-> 1]
        ELSE IF crystal = "raises"
        THEN [results |-> LoadFailed(spinning), queries |-> 2]
        ELSE LET tables == results_clear(spinning) \o LoadTables(regular, crystal)
                           \o <<"Spacer", "Markdown">>
             IN  IF charts = "raises"
                 THEN [results |-> LoadFailed(tables), queries |-> 3]
                 ELSE [results |->
                          tables
                          \o [i \in 1..Len(CHART_METRICS) |-> "Row"]
                          \o (IF regular = "none" /\ crystal = "none"
                              THEN <<"No Data">> ELSE <<>>),
                       queries |-> 4]

\* main_area showing one page, with the login message and the results
\* area, and the number of queries the last run of load_data made for it
Page(view) == [view |-> view, error_msg |-> "", results |-> <<>>, queries |-> 0]

\* create_app, app.py:599-629
create_app == IF IMPORTS_OK THEN Page("login") ELSE Page("import_error")

\* do_login, app.py:236-253
do_login(u, username, password) ==
    /\ page[u].view = "login"
    /\ IF username = "" \/ password = ""
       THEN /\ page' = [page EXCEPT ![u].error_msg = "warning"]
            /\ UNCHANGED <<sessionVars, session_store>>
       ELSE /\ AuthenticateCall(username, password)
            /\ IF last'.ret[1]
               THEN /\ session_store' =
                          [session_store EXCEPT ![u] =
                              [session_id |-> TheValue(last'.ret[2]),
                               user |-> TheValue(last'.ret[3])]]
                    /\ page' = [page EXCEPT ![u] = Page("landing")]
               ELSE /\ page' = [page EXCEPT ![u].error_msg = "invalid"]
                    /\ UNCHANGED session_store
    /\ UNCHANGED <<last_load, functionVars>>

\* do_logout of the landing page and of the dashboard, app.py:318-324, 440-447
do_logout(u) ==
    /\ page[u].view \in {"landing", "icarus"}
    /\ IF DOMAIN session_store[u] # {}
       THEN LogoutCall(session_store[u].session_id)
       ELSE UNCHANGED sessionVars
    /\ session_store' = [session_store EXCEPT ![u] = <<>>]
    /\ page' = [page EXCEPT ![u] = Page("login")]
    /\ UNCHANGED <<last_load, functionVars>>

\* open_icarus, app.py:356-371: the dashboard, or an error pane with a
\* button back to the landing page when the dashboard cannot be built
open_icarus(u) ==
    /\ page[u].view = "landing"
    /\ \E built \in BOOLEAN :
          page' = [page EXCEPT ![u] = IF built THEN Page("icarus")
                                               ELSE Page("icarus_error")]
    /\ UNCHANGED <<sessionVars, session_store, last_load, functionVars>>

\* go_back, app.py:433-436, and the Back to Home buttons, app.py:368, 406
go_back(u) ==
    /\ page[u].view \in {"icarus", "icarus_error"}
    /\ page' = [page EXCEPT ![u] = Page("landing")]
    /\ UNCHANGED <<sessionVars, session_store, last_load, functionVars>>

\* the session of a browser session is stored and has not expired
StoreValid(u) ==
    /\ DOMAIN session_store[u] # {}
    /\ session_store[u].session_id \in DOMAIN sessions
    /\ ~Expired(sessions[session_store[u].session_id], now)

\* load_data, app.py:478-565: it queries and renders; the session is not
\* looked at
load_data(u) ==
    /\ page[u].view = "icarus"
    /\ \E in \in LoadRuns :
          LET run == load_data_body(page[u].results, in.has_plans, in.has_metrics,
                                    in.regular, in.crystal, in.charts)
          IN  page' = [page EXCEPT ![u].results = run.results,
                                   ![u].queries = run.queries]
    /\ last_load' = Some([ui |-> u, valid |-> StoreValid(u)])
    /\ UNCHANGED <<sessionVars, session_store, functionVars>>

InitUI ==
    /\ IMPORTS_OK \in BOOLEAN
    /\ sessions = <<>>
    /\ now = 0
    /\ issued = {}
    /\ last = [op |-> "init", arg |-> "", ret |-> None, exc |-> NoError, at |-> 0]
    /\ pre = <<>>
    /\ logins = [u \in UserIdArgs |-> 0]
    /\ removed_by = <<>>
    /\ page = [u \in UISessions |-> create_app]
    /\ session_store = [u \in UISessions |-> <<>>]
    /\ last_load = None
    /\ NoPivot
    /\ NoFormat
    /\ NoChart

NextUI ==
    \/ \E u \in UISessions, n \in UsernameInputs, p \in PasswordInputs : do_login(u, n, p)
    \/ \E u \in UISessions : do_logout(u)
    \/ \E u \in UISessions : open_icarus(u)
    \/ \E u \in UISessions : go_back(u)
    \/ \E u \in UISessions : load_data(u)
    \/ Tick

SpecUI == InitUI /\ [][NextUI]_vars

\* the handlers alone, the clock standing still: load_data reads no clock
NextLoad ==
    \/ \E u \in UISessions, n \in UsernameInputs, p \in PasswordInputs : do_login(u, n, p)
    \/ \E u \in UISessions : do_logout(u)
    \/ \E u \in UISessions : open_icarus(u)
    \/ \E u \in UISessions : go_back(u)
    \/ \E u \in UISessions : load_data(u)

SpecLoad == InitUI /\ [][NextLoad]_vars

-----------------------------------------------------------------------------
(* Properties of the session registry, specification Spec *)

SameRecords(a, b) == DOMAIN a = DOMAIN b /\ \A k \in DOMAIN a : a[k] = b[k]

SessionsOf(reg, user_id) == {k \in DOMAIN reg : reg[k].user_id = user_id}

ValidAt(reg, sid, t) == GetSessionResult(reg, sid, t).ret # None

AuthSucceeded == last.op = "authenticate" /\ last.ret[1]

\* C1: get_session(id) returns the session iff id is non-empty, id is a key
\* of the registry and now <= expires_at of that record (now = expires_at is
\* still valid); in every other case it returns None, without an error.
C1_ValidIff ==
    last.op = "get_session" =>
        LET ok == /\ last.arg # ""
                  /\ last.arg \in DOMAIN pre
                  /\ last.at <= pre[last.arg].expires_at
        IN  /\ ok => last.ret = Some(pre[last.arg])
            /\ ~ok => last.ret = None
            /\ last.exc = NoError

\* get_session was called at the very instant of expiry and returned the session
C1_Witness ==
    /\ last.op = "get_session"
    /\ last.arg \in DOMAIN pre
    /\ last.at = pre[last.arg].expires_at
    /\ last.ret = Some(pre[last.arg])

\* C2: a get_session call for an id whose TTL has elapsed returns None and
\* leaves the id out of the registry; the id never comes back, and a later
\* get_session call for it returns None, raises nothing and changes nothing.
C2_IdempotentExpiry ==
    /\ \A k \in DOMAIN removed_by :
           removed_by[k] = "get_session" => k \notin DOMAIN sessions
    /\ last.op = "get_session" =>
        /\ (last.arg \in DOMAIN pre /\ last.at > pre[last.arg].expires_at) =>
              /\ last.ret = None
              /\ last.exc = NoError
              /\ last.arg \notin DOMAIN sessions
        /\ (/\ last.arg \notin DOMAIN pre
            /\ last.arg \in DOMAIN removed_by
            /\ removed_by[last.arg] = "get_session") =>
              /\ last.ret = None
              /\ last.exc = NoError
              /\ SameRecords(sessions, pre)

\* a second get_session call for an id that an earlier call found expired,
\* made while other sessions are in the registry
C2_Witness ==
    /\ last.op = "get_session"
    /\ last.arg \notin DOMAIN pre
    /\ last.arg \in DOMAIN removed_by
    /\ removed_by[last.arg] = "get_session"
    /\ DOMAIN pre # {}

\* C3: authenticate returns (False, None, None) and leaves the registry as it
\* was when the imports failed, when user_id has no directory entry, or when
\* password differs from the stored secret; the result is the same in all three.
C3_UniformFailure ==
    last.op = "authenticate" =>
        LET u == last.arg[1]
            p == last.arg[2]
        IN  (\/ ~IMPORTS_OK
             \/ u \notin DOMAIN DEFAULT_USERS
             \/ DEFAULT_USERS[u].password # p) =>
                /\ last.ret = <<FALSE, None, None>>
                /\ last.exc = NoError
                /\ SameRecords(sessions, pre)

\* a known user gave a wrong password while sessions were in the registry
C3_Witness ==
    /\ last.op = "authenticate"
    /\ IMPORTS_OK
    /\ last.arg = <<"admin", "ADMIN123">>
    /\ last.ret = <<FALSE, None, None>>
    /\ DOMAIN pre # {}

\* C4 as stated: after n successful logins of a user, with no removal so far,
\* that user has n sessions that are all valid at the time of the n-th login.
C4_Original ==
    (AuthSucceeded /\ DOMAIN removed_by = {}) =>
        LET u == last.arg[1]
        IN  Cardinality({k \in SessionsOf(sessions, u) :
                            ValidAt(sessions, k, last.at)}) = logins[u]

\* C4 (amended): a successful authenticate adds exactly one new key and keeps
\* every earlier record as it was; after n successful logins of a user, with
\* no removal so far, the registry holds n sessions of that user under n
\* distinct ids, and they are all valid at the time of the n-th login when
\* none of them is older than 24 hours.
C4_OneNewSession ==
    AuthSucceeded =>
        LET u == last.arg[1]
            mine == SessionsOf(sessions, u)
        IN  /\ \E sid \in DOMAIN sessions :
                  /\ sid \notin DOMAIN pre
                  /\ DOMAIN sessions = DOMAIN pre \cup {sid}
            /\ \A k \in DOMAIN pre : sessions[k] = pre[k]
            /\ DOMAIN removed_by = {} =>
                  /\ Cardinality(mine) = logins[u]
                  /\ (\A k \in mine : last.at <= sessions[k].expires_at) =>
                        \A k \in mine : ValidAt(sessions, k, last.at)

\* the third login of one user, the earlier two sessions still stored
C4_Witness ==
    /\ AuthSucceeded
    /\ DOMAIN removed_by = {}
    /\ logins[last.arg[1]] = 3
    /\ Cardinality(SessionsOf(sessions, last.arg[1])) = 3
    /\ \A k \in DOMAIN sessions : ValidAt(sessions, k, last.at)

\* C5: after logout(id) the id is not in the registry and get_session(id)
\* returns None; logout raises nothing, removes nothing but id, and leaves the
\* registry as it was when id was not in it (a second logout, an unknown id).
C5_LogoutIdempotent ==
    last.op = "logout" =>
        /\ last.exc = NoError
        /\ last.arg \notin DOMAIN sessions
        /\ GetSessionResult(sessions, last.arg, now).ret = None
        /\ DOMAIN sessions = DOMAIN pre \ {last.arg}
        /\ \A k \in DOMAIN sessions : sessions[k] = pre[k]
        /\ last.arg \notin DOMAIN pre => SameRecords(sessions, pre)

\* a second logout of the same id, other sessions being in the registry
C5_Witness ==
    /\ last.op = "logout"
    /\ last.arg \notin DOMAIN pre
    /\ last.arg \in DOMAIN removed_by
    /\ removed_by[last.arg] = "logout"
    /\ DOMAIN pre # {}

\* C6: a successful authenticate(user_id, password) stores, under the new id,
\* user_id with the name and role of its directory entry and expires_at = time
\* of the call + 24 hours, and returns (True, that id, the directory entry).
C6_SessionRecord ==
    AuthSucceeded =>
        LET u == last.arg[1]
        IN  \E sid \in DOMAIN sessions \ DOMAIN pre :
                /\ sessions[sid] = [user_id |-> u,
                                    name |-> DEFAULT_USERS[u].name,
                                    role |-> DEFAULT_USERS[u].role,
                                    expires_at |-> last.at + 24]
                /\ last.ret = <<TRUE, Some(sid), Some(DEFAULT_USERS[u])>>

\* the viewer logged in some time after the start
C6_Witness ==
    /\ AuthSucceeded
    /\ last.arg[1] = "viewer"
    /\ last.at > 0
    /\ \E sid \in DOMAIN sessions : sessions[sid].role = "viewer"

\* C19: the passage of time alone removes no session, and no call removes
\* a session other than its own: a session leaves the registry only in a
\* get_session call for its own id made after its expiry, or in a logout
\* call for its own id; authenticate calls, and get_session and logout
\* calls for other ids, leave it in place however long ago it expired.
C19_NoSweep ==
    [][ /\ now' # now => sessions' = sessions
        /\ \A k \in DOMAIN sessions :
              k \notin DOMAIN sessions' =>
                  /\ last'.op \in {"get_session", "logout"}
                  /\ last'.arg = k
                  /\ last'.op = "get_session" => now > sessions[k].expires_at
      ]_vars

\* a session that expired is still stored after a later login and after a
\* get_session or logout call for the id of that later login
C19_Witness ==
    \E k \in DOMAIN sessions :
        /\ now > sessions[k].expires_at
        /\ last.at > sessions[k].expires_at
        /\ last.op \in {"get_session", "logout"}
        /\ last.arg # k
        /\ last.arg \in DOMAIN pre
        /\ pre[last.arg].expires_at > sessions[k].expires_at

\* the record keyed by k is not the same before and after the step
RecordChanged(k) ==
    \/ k \in DOMAIN sessions /\ k \notin DOMAIN sessions'
    \/ k \notin DOMAIN sessions /\ k \in DOMAIN sessions'
    \/ k \in DOMAIN sessions /\ k \in DOMAIN sessions' /\ sessions'[k] # sessions[k]

\* C21: whole authenticate, get_session and logout calls of independent
\* callers do not interfere on the registry, in any interleaving: a
\* get_session(id) or logout(id) call changes at most the record keyed by
\* id, and only by removing it; an authenticate call changes no existing
\* record, it adds at most one record under a new key; so a session that
\* is valid and whose expiry has not passed after the step is still valid
\* unless the step is a logout of its own id.
C21_NoInterference ==
    [][ /\ \A k \in TokenPool :
              RecordChanged(k) =>
                  \/ /\ last'.op = "authenticate"
                     /\ k \notin DOMAIN sessions
                     /\ \A j \in TokenPool \ {k} : ~RecordChanged(j)
                  \/ /\ last'.op \in {"get_session", "logout"}
                     /\ last'.arg = k
                     /\ k \notin DOMAIN sessions'
        /\ \A k \in DOMAIN sessions :
              (ValidAt(sessions, k, now) /\ now' <= sessions[k].expires_at) =>
                  \/ ValidAt(sessions', k, now')
                  \/ last'.op = "logout" /\ last'.arg = k
      ]_vars

\* one user has two valid sessions, one of them is logged out: the other
\* one is still stored, unchanged and valid
C21_Witness ==
    /\ last.op = "logout"
    /\ last.arg \in DOMAIN pre
    /\ last.arg \notin DOMAIN sessions
    /\ \E k \in DOMAIN sessions :
          /\ k \in DOMAIN pre
          /\ pre[k] = sessions[k]
          /\ pre[k].user_id = pre[last.arg].user_id
          /\ ValidAt(sessions, k, now)

-----------------------------------------------------------------------------
(* Properties of process_pivot_data, specification SpecPivot *)

PivotDone == pc = "done"
InRows == TheValue(pivot_data).rows
InColumns == TheValue(pivot_data).columns
OutTable == TheValue(pivot_result)

\* the date a column label stands for
LabelYmd(label) ==
    IF label.kind = "mdY"
    THEN <<label.parts[3], label.parts[1], label.parts[2]>>
    ELSE label.parts

\* the rows of the table for one (app, plan) pair and one selected metric
OutRowsOf(app, plan, metric) ==
    {n \in 1..Len(OutTable.rows) :
        /\ OutTable.rows[n].App = app
        /\ OutTable.rows[n].Plan = plan
        /\ OutTable.rows[n].Metric = get_display_metric_name(metric)}

SameKey(i, j) == RowKey(InRows[i]) = RowKey(InRows[j])

\* C7: process_pivot_data returns None exactly when the records are absent or
\* empty, have no Reporting_Date sequence, or that sequence has length zero;
\* for every other input it returns a table, with zero rows when no metric
\* is selected.
C7_NoneSentinel ==
    PivotDone =>
        /\ pivot_result = None <=>
              \/ pivot_data = None
              \/ InColumns = {}
              \/ "Reporting_Date" \notin InColumns
              \/ Len(InRows) = 0
        /\ (pivot_result # None /\ Len(selected_metrics) = 0) =>
              Len(OutTable.rows) = 0

\* records with rows and dates, no metric selected: a table with zero rows
C7_Witness ==
    /\ PivotDone
    /\ pivot_data # None
    /\ "Reporting_Date" \in InColumns
    /\ Len(InRows) = MaxRows
    /\ Len(selected_metrics) = 0
    /\ pivot_result # None
    /\ Len(OutTable.rows) = 0

\* C8 as stated: the cell of a key and a metric is computed from the metric
\* value of the first input row with that key.
C8_Original ==
    (PivotDone /\ pivot_result # None) =>
        \A i \in 1..Len(InRows), j \in 1..Len(selected_metrics) :
            LET metric == selected_metrics[j]
                first == CHOOSE k \in 1..Len(InRows) :
                            SameKey(k, i) /\ \A l \in 1..(k - 1) : ~SameKey(l, i)
            IN  metric \in InColumns =>
                  \A n \in OutRowsOf(InRows[i].App_Name, InRows[i].Plan_Name, metric) :
                      OutTable.rows[n].cells[date_label(InRows[i].Reporting_Date)] =
                          format_metric_value(InRows[first].m[metric], metric,
                                              is_crystal_ball)

\* C8 (amended): when several input rows have the same (App_Name, Plan_Name,
\* Reporting_Date) key, the cell of that key and a metric is computed from the
\* metric value of the last such row in input order; earlier rows with the
\* same key are overwritten.
C8_LastWins ==
    (PivotDone /\ pivot_result # None) =>
        \A i \in 1..Len(InRows), j \in 1..Len(selected_metrics) :
            LET metric == selected_metrics[j]
                final == CHOOSE k \in 1..Len(InRows) :
                            SameKey(k, i) /\ \A l \in (k + 1)..Len(InRows) : ~SameKey(l, i)
                out == OutRowsOf(InRows[i].App_Name, InRows[i].Plan_Name, metric)
            IN  metric \in InColumns =>
                  /\ out # {}
                  /\ \A n \in out :
                      OutTable.rows[n].cells[date_label(InRows[i].Reporting_Date)] =
                          format_metric_value(InRows[final].m[metric], metric,
                                              is_crystal_ball)

\* two rows with one key and different Rebills values, Rebills selected
C8_Witness ==
    /\ PivotDone
    /\ pivot_result # None
    /\ \E i, k \in 1..Len(InRows) :
          /\ i < k
          /\ SameKey(i, k)
          /\ InRows[i].m["Rebills"] # InRows[k].m["Rebills"]
    /\ \E j \in 1..Len(selected_metrics) : selected_metrics[j] = "Rebills"
    /\ Len(OutTable.rows) > 0

\* C9: the columns of the table are App, Plan, Metric and then the date
\* columns, most recent date first, strictly descending, whatever the order
\* of the input rows.
C9_DatesDescending ==
    (PivotDone /\ pivot_result # None) =>
        LET cols == OutTable.columns
        IN  /\ Len(OutTable.rows) > 0 => Len(cols) > 3
            /\ Len(cols) > 0 =>
                  /\ SubSeq(cols, 1, 3) =
                        <<FixedColumn("App"), FixedColumn("Plan"), FixedColumn("Metric")>>
                  /\ \A i \in 4..Len(cols) : cols[i].kind # "fixed"
                  /\ \A i, j \in 4..Len(cols) :
                        i < j => YmdLess(LabelYmd(cols[j]), LabelYmd(cols[i]))

\* input rows in ascending date order, date objects, two date columns out
C9_Witness ==
    /\ PivotDone
    /\ pivot_result # None
    /\ Len(InRows) >= 2
    /\ InRows[1].Reporting_Date.type = "date"
    /\ DateLess(InRows[1].Reporting_Date, InRows[2].Reporting_Date)
    /\ Len(OutTable.columns) = 5

\* the position of a metric label in the caller's selection
MetricPos(label) ==
    CHOOSE j \in 1..Len(selected_metrics) :
        get_display_metric_name(selected_metrics[j]) = label

\* C10: the rows of the table are ordered by (App_Name, Plan_Name) ascending
\* and, within one pair, by the order of the selected metrics, whatever the
\* order of the input rows: the rows of one pair are contiguous.
C10_RowOrder ==
    (PivotDone /\ pivot_result # None) =>
        \A a, b \in 1..Len(OutTable.rows) :
            a < b =>
                LET ra == OutTable.rows[a]
                    rb == OutTable.rows[b]
                IN  \/ ComboLess(<<ra.App, ra.Plan>>, <<rb.App, rb.Plan>>)
                    \/ /\ ra.App = rb.App
                       /\ ra.Plan = rb.Plan
                       /\ MetricPos(ra.Metric) < MetricPos(rb.Metric)

\* three pairs given in descending order, two metrics selected: six rows
C10_Witness ==
    /\ PivotDone
    /\ pivot_result # None
    /\ Len(InRows) = 3
    /\ ComboLess(<<InRows[2].App_Name, InRows[2].Plan_Name>>,
                 <<InRows[1].App_Name, InRows[1].Plan_Name>>)
    /\ ComboLess(<<InRows[3].App_Name, InRows[3].Plan_Name>>,
                 <<InRows[2].App_Name, InRows[2].Plan_Name>>)
    /\ selected_metrics = <<"Churn_Rate", "Rebills">>
    /\ Len(OutTable.rows) = 6

\* the distinct (App_Name, Plan_Name) pairs of the input rows
InPairs == {<<InRows[i].App_Name, InRows[i].Plan_Name>> : i \in 1..Len(InRows)}

\* some input row has this pair and a date with this column label
Observed(p, lab) ==
    \E i \in 1..Len(InRows) :
        /\ <<InRows[i].App_Name, InRows[i].Plan_Name>> = p
        /\ date_label(InRows[i].Reporting_Date) = lab

\* C11: a table has exactly one row for every distinct (App_Name, Plan_Name)
\* pair of the input and every selected metric, so its row count is the
\* number of pairs times the number of selected metrics; a selected metric
\* that is no column of the input, or has no observation for a pair and a
\* date, gives null cells and never a missing row.
C11_RowPerPairAndMetric ==
    (PivotDone /\ pivot_result # None) =>
        /\ Len(OutTable.rows) = Cardinality(InPairs) * Len(selected_metrics)
        /\ \A p \in InPairs, j \in 1..Len(selected_metrics) :
              LET metric == selected_metrics[j]
                  out == OutRowsOf(p[1], p[2], metric)
              IN  /\ Cardinality(out) = 1
                  /\ \A n \in out : \A lab \in DOMAIN OutTable.rows[n].cells :
                        (metric \notin InColumns \/ ~Observed(p, lab)) =>
                            OutTable.rows[n].cells[lab] = None

\* two pairs observed on different dates, one selected metric that is no
\* column of the input: four rows, the rows of that metric all null
C11_Witness ==
    /\ PivotDone
    /\ pivot_result # None
    /\ selected_metrics = <<"Refunds", "Churn_Rate">>
    /\ Cardinality(InPairs) = 2
    /\ Len(OutTable.rows) = 4
    /\ \E p \in InPairs : \E n \in OutRowsOf(p[1], p[2], "Churn_Rate") :
          \E lab \in DOMAIN OutTable.rows[n].cells : ~Observed(p, lab)
    /\ \E p \in InPairs : \E n \in OutRowsOf(p[1], p[2], "Refunds") :
          \A lab \in DOMAIN OutTable.rows[n].cells : OutTable.rows[n].cells[lab] = None

\* the distinct Reporting_Date values of the input, as calendar dates
InDates == {InRows[i].Reporting_Date.ymd : i \in 1..Len(InRows)}

\* the positions of the date columns of the table
DateColumns == 4..Len(OutTable.columns)

\* every distinct input date has a date column of its own, and every date
\* column stands for a distinct input date
DatesOneToOne ==
    /\ \A i \in DateColumns : OutTable.columns[i].kind # "fixed"
    /\ Cardinality(DateColumns) = Cardinality(InDates)
    /\ {LabelYmd(OutTable.columns[i]) : i \in DateColumns} = InDates

\* C12 as stated: for every table, the date column labels correspond one to
\* one to the distinct Reporting_Date values of the input.
C12_Original ==
    (PivotDone /\ pivot_result # None) => DatesOneToOne

\* C12 (amended): for every table with at least one row, the date column
\* labels correspond one to one to the distinct Reporting_Date values of the
\* input: every distinct input date has its own column, every date column is
\* a distinct input date, and reading the labels back as dates gives the
\* set of input dates.
C12_DateColumns ==
    (PivotDone /\ pivot_result # None /\ Len(OutTable.rows) > 0) => DatesOneToOne

\* two distinct dates, each on two input rows, a metric selected: two date
\* columns
C12_Witness ==
    /\ PivotDone
    /\ pivot_result # None
    /\ Len(InRows) = 3
    /\ Cardinality(InDates) = 2
    /\ InRows[1].Reporting_Date.type = "date"
    /\ Len(OutTable.rows) > 0
    /\ Cardinality(DateColumns) = 2

-----------------------------------------------------------------------------
(* Properties of format_metric_value, specification SpecFormat *)

FormatDone == Len(format_result) = 1
FormatOut == format_result[1]

Abs(n) == IF n < 0 THEN 0 - n ELSE n

\* x is the multiple of step nearest to tt, the even multiple on a tie
Nearest(x, tt, step) ==
    /\ x % step = 0
    /\ 2 * Abs(x - tt) <= step
    /\ 2 * Abs(x - tt) = step => (x \div step) % 2 = 0

\* C13: for a numeric raw value, format_metric_value rounds to a whole
\* number when the metric is Rebills and the scenario is the crystal ball
\* one, even when Rebills is configured as a percent metric; otherwise, for
\* a percent metric, it gives the value times 100 rounded to two decimals
\* (0.1234 gives 12.34); otherwise the value rounded to two decimals.
\* Rebills in the regular scenario never takes the whole-number rule.
C13_Precedence ==
    (FormatDone /\ format_args.value.kind = "num") =>
        LET tt == format_args.value.tt
            metric == format_args.metric_name
            h == TheValue(FormatOut)
        IN  /\ FormatOut # None
            /\ IF metric = "Rebills" /\ format_args.is_crystal_ball
               THEN Nearest(100 * h, tt, 10000)
               ELSE IF FormatType(metric) = "percent"
               THEN 100 * h = 100 * tt
               ELSE Nearest(100 * h, tt, 100)
            /\ (tt = 1234 /\ FormatType(metric) = "percent"
                  /\ ~(metric = "Rebills" /\ format_args.is_crystal_ball)) => h = 1234

\* Rebills configured as a percent metric, crystal ball scenario, 12.5: 12
C13_Witness ==
    /\ FormatDone
    /\ format_args.metric_name = "Rebills"
    /\ format_args.is_crystal_ball
    /\ FormatType("Rebills") = "percent"
    /\ format_args.value = Num(125000)
    /\ FormatOut = Some(1200)

-----------------------------------------------------------------------------
(* Properties of process_pivot_data on malformed cells, specification       *)
(* SpecCells                                                                *)

Malformed(value) == value.kind # "num"

\* row i is the last input row with its key
FinalOfKey(i) == \A l \in (i + 1)..Len(InRows) : ~SameKey(l, i)

\* the input with the metric cell of row i replaced by the number 1
Repaired(i, metric) ==
    Some([columns |-> InColumns,
          rows |-> [InRows EXCEPT ![i].m[metric] = Num(10000)]])

\* row n and column lab of a table show the key of input row i and the metric
CellOf(table, n, lab, i, metric) ==
    /\ table.rows[n].App = InRows[i].App_Name
    /\ table.rows[n].Plan = InRows[i].Plan_Name
    /\ table.rows[n].Metric = get_display_metric_name(metric)
    /\ lab = date_label(InRows[i].Reporting_Date)

\* C14: a raw value that is None, NaN or not numeric never aborts the
\* pivot: the table is returned, the cell computed from that value is
\* null, and every other cell has the value it has when the malformed
\* value is replaced by a number.
C14_MalformedCell ==
    PivotDone =>
        /\ pivot_result # None
        /\ \A i \in 1..Len(InRows), j \in 1..Len(selected_metrics) :
              LET metric == selected_metrics[j]
                  fixed == TheValue(process_pivot_data(Repaired(i, metric),
                                        selected_metrics, is_crystal_ball))
              IN  Malformed(InRows[i].m[metric]) =>
                    /\ Len(fixed.rows) = Len(OutTable.rows)
                    /\ fixed.columns = OutTable.columns
                    /\ \A n \in 1..Len(OutTable.rows) :
                          \A lab \in DOMAIN OutTable.rows[n].cells :
                              IF CellOf(OutTable, n, lab, i, metric)
                              THEN FinalOfKey(i) => OutTable.rows[n].cells[lab] = None
                              ELSE /\ lab \in DOMAIN fixed.rows[n].cells
                                   /\ OutTable.rows[n].cells[lab] =
                                         fixed.rows[n].cells[lab]

\* a row whose Rebills value is a text and whose key no later row has, in a
\* table that shows a number in another cell
C14_Witness ==
    /\ PivotDone
    /\ pivot_result # None
    /\ \E i \in 1..Len(InRows) :
          /\ InRows[i].m["Rebills"] = TextValue
          /\ FinalOfKey(i)
          /\ \E n \in 1..Len(OutTable.rows) :
                /\ CellOf(OutTable, n, date_label(InRows[i].Reporting_Date), i, "Rebills")
                /\ OutTable.rows[n].cells[date_label(InRows[i].Reporting_Date)] = None
    /\ \E n \in 1..Len(OutTable.rows) : \E lab \in DOMAIN OutTable.rows[n].cells :
          OutTable.rows[n].cells[lab] # None

-----------------------------------------------------------------------------
(* Properties of build_line_chart, specification SpecChart *)

ChartDone == Len(chart_result) = 1
ChartOut == chart_result[1]
ChartIn == TheValue(chart_args.data).rows

\* C15: build_line_chart returns the no-data result (a figure without
\* traces that carries the 'No data available' annotation, and an empty
\* plan list) exactly when data is None or empty, has no Plan_Name list, or
\* that list has length zero; for every other input the plan list is not
\* empty and the figure has no such annotation.
C15_NoData ==
    ChartDone =>
        LET absent == \/ chart_args.data = None
                      \/ TheValue(chart_args.data).columns = {}
                      \/ "Plan_Name" \notin TheValue(chart_args.data).columns
                      \/ Len(ChartIn) = 0
        IN  /\ absent =>
                  /\ Len(ChartOut.fig.traces) = 0
                  /\ ChartOut.fig.annotations = <<NO_DATA_TEXT>>
                  /\ Len(ChartOut.plans) = 0
            /\ ~absent =>
                  /\ Len(ChartOut.plans) > 0
                  /\ Len(ChartOut.fig.traces) > 0
                  /\ Len(ChartOut.fig.annotations) = 0

\* a dict that has the Plan_Name list, of length zero: the no-data result
C15_Witness ==
    /\ ChartDone
    /\ chart_args.data # None
    /\ "Plan_Name" \in TheValue(chart_args.data).columns
    /\ Len(ChartIn) = 0
    /\ ChartOut.fig.annotations = <<NO_DATA_TEXT>>
    /\ Len(ChartOut.plans) = 0

\* the chart was built from data with at least one row of plans
ChartBuilt == ChartDone /\ Len(ChartOut.plans) > 0

\* the input rows of one plan, and those among them with one date and one
\* value once None is read as 0
RowsOfPlan(plan) == {i \in 1..Len(ChartIn) : ChartIn[i].Plan_Name = plan}
RowsLike(plan, d, v) ==
    {i \in RowsOfPlan(plan) :
        /\ ChartIn[i].Reporting_Date = d
        /\ IF ChartIn[i].metric_value.kind = "none"
           THEN v = Num(0)
           ELSE v = ChartIn[i].metric_value}

\* the points of a trace that have one date and one value
PointsLike(trace, d, v) ==
    {k \in 1..Len(trace.x) : trace.x[k] = d /\ trace.y[k] = v}

\* C16: the series of a plan has exactly one point for every input row of
\* that plan, with None replaced by 0 and every other value unchanged, and
\* its points are in ascending date order whatever the order of the input
\* rows; the rows (d1, 5), (d2, None) give the values 5, 0.
C16_SeriesPoints ==
    ChartBuilt =>
        \A t \in 1..Len(ChartOut.fig.traces) :
            LET trace == ChartOut.fig.traces[t]
            IN  /\ Len(trace.x) = Cardinality(RowsOfPlan(trace.name))
                /\ Len(trace.y) = Len(trace.x)
                /\ \A d \in Dates, v \in ChartValues \cup {Num(0)} :
                      Cardinality(PointsLike(trace, d, v)) =
                          Cardinality(RowsLike(trace.name, d, v))
                /\ \A a, b \in 1..Len(trace.x) :
                      a < b => ~YmdLess(trace.x[b], trace.x[a])
                /\ (Len(ChartIn) = 2
                      /\ ChartIn[1].Plan_Name = ChartIn[2].Plan_Name
                      /\ YmdLess(ChartIn[1].Reporting_Date, ChartIn[2].Reporting_Date)
                      /\ ChartIn[1].metric_value = Num(50000)
                      /\ ChartIn[2].metric_value = NoneValue) =>
                        trace.y = <<Num(50000), Num(0)>>

\* three rows of one plan, the later date first, one value None: three
\* points, the earlier date first, among them a 0
C16_Witness ==
    /\ ChartBuilt
    /\ Len(ChartIn) = 3
    /\ Cardinality(RowsOfPlan("P1")) = 3
    /\ YmdLess(ChartIn[2].Reporting_Date, ChartIn[1].Reporting_Date)
    /\ \E i \in 1..3 : ChartIn[i].metric_value = NoneValue
    /\ Len(ChartOut.fig.traces[1].x) = 3
    /\ YmdLess(ChartOut.fig.traces[1].x[1], ChartOut.fig.traces[1].x[3])
    /\ \E k \in 1..3 : ChartOut.fig.traces[1].y[k] = Num(0)

\* C17: the chart has exactly one series for every distinct Plan_Name of
\* the input; the returned plan list holds the distinct plan names in
\* ascending order without duplicates, and the series follow in that order.
C17_OneSeriesPerPlan ==
    ChartBuilt =>
        LET plans == ChartOut.plans
            traces == ChartOut.fig.traces
        IN  /\ {plans[k] : k \in 1..Len(plans)} =
                  {ChartIn[i].Plan_Name : i \in 1..Len(ChartIn)}
            /\ \A a, b \in 1..Len(plans) : a < b => StrLess(plans[a], plans[b])
            /\ Len(traces) = Len(plans)
            /\ \A k \in 1..Len(plans) : traces[k].name = plans[k]

\* rows that name P2 before P1, each plan more than once
C17_Witness ==
    /\ ChartBuilt
    /\ Len(ChartIn) = 3
    /\ ChartIn[1].Plan_Name = "P2"
    /\ ChartIn[2].Plan_Name = "P1"
    /\ ChartIn[3].Plan_Name = "P2"
    /\ ChartOut.plans = <<"P1", "P2">>
    /\ Len(ChartOut.fig.traces) = 2

\* the date lies inside a date range
InRange(d, range) == ~YmdLess(d, range[1]) /\ ~YmdLess(range[2], d)

\* C18: for data with rows, date_range only sets the range of the x axis,
\* to the pair the caller gave whatever dates the data spans; it filters no
\* point: the series are the ones built for any other date_range, and a
\* row dated outside the range still has its point.
C18_RangeOnlyAxis ==
    ChartBuilt =>
        /\ chart_args.date_range # None =>
              ChartOut.fig.xaxis_range = Some(TheValue(chart_args.date_range))
        /\ chart_args.date_range = None => ChartOut.fig.xaxis_range = None
        /\ \A other \in DateRangeArgs :
              build_line_chart(chart_args.data, chart_args.format_type, other).fig.traces
                  = ChartOut.fig.traces
        /\ \A i \in 1..Len(ChartIn) :
              \E t \in 1..Len(ChartOut.fig.traces) :
                  /\ ChartOut.fig.traces[t].name = ChartIn[i].Plan_Name
                  /\ \E k \in 1..Len(ChartOut.fig.traces[t].x) :
                        ChartOut.fig.traces[t].x[k] = ChartIn[i].Reporting_Date

\* a date range that ends before the date of an input row: the axis has the
\* range, the series has the point
C18_Witness ==
    /\ ChartBuilt
    /\ chart_args.date_range # None
    /\ ChartOut.fig.xaxis_range = chart_args.date_range
    /\ \E i \in 1..Len(ChartIn) :
          /\ ~InRange(ChartIn[i].Reporting_Date, TheValue(chart_args.date_range))
          /\ \E t \in 1..Len(ChartOut.fig.traces) :
                \E k \in 1..Len(ChartOut.fig.traces[t].x) :
                    ChartOut.fig.traces[t].x[k] = ChartIn[i].Reporting_Date

-----------------------------------------------------------------------------
(* Properties of the pages, specifications SpecUI and SpecLoad *)

HasSession(u) == DOMAIN session_store[u] # {}

\* the gated pages are shown only with a session id in the store that a
\* successful authenticate call issued to this browser session alone
GatedAfterLogin ==
    \A u \in UISessions :
        page[u].view \in GatedViews =>
            /\ HasSession(u)
            /\ session_store[u].session_id \in issued
            /\ \A w \in UISessions \ {u} :
                  HasSession(w) => session_store[w].session_id # session_store[u].session_id

\* the store holds a session id exactly on the gated pages
StoreIffGated ==
    \A u \in UISessions : HasSession(u) <=> page[u].view \in GatedViews

\* load_data ran only for a browser session whose session was valid then
LoadsWithValidSession == last_load # None => TheValue(last_load).valid

\* after a logout the store is empty, the id is out of the registry and
\* the login page is shown
LoggedOutClean ==
    /\ \A u \in UISessions :
          (page[u].view = "login" \/ ~HasSession(u)) =>
              /\ ~HasSession(u)
              /\ page[u].view \in {"login", "import_error"}
    /\ \A k \in DOMAIN removed_by :
          /\ removed_by[k] = "logout"
          /\ k \notin DOMAIN sessions
          /\ \A u \in UISessions :
                HasSession(u) => session_store[u].session_id # k

\* C20: in every reachable state of the pages, the landing page, the
\* dashboard and its load action are reached only after a successful
\* authenticate in that browser session; the store holds a session id
\* exactly while one of those pages is shown; load_data never runs for a
\* browser session whose session is not valid at that time (logged out, or
\* expired in the registry); after a logout the store is empty, the id is
\* out of the registry and the login page is shown.
C20_Gated ==
    /\ GatedAfterLogin
    /\ StoreIffGated
    /\ LoadsWithValidSession
    /\ LoggedOutClean


\* the panes of a results area that are error panes
ErrorPanesOf(r) == {n \in 1..Len(r) : r[n] \in ErrorPanes}

\* a results area as a finished run of load_data leaves it: no spinner, not
\* empty, at most one error pane, and nothing beside the pane of a warning
\* or of a failure
Settled(r) ==
    /\ Len(r) > 0
    /\ \A n \in 1..Len(r) : r[n] # SPINNER
    /\ Cardinality(ErrorPanesOf(r)) <= 1
    /\ \A n \in 1..Len(r) :
          r[n] \in ErrorPanes \ {"No Data"} => Len(r) = 1

\* C22: every run of load_data ends with the spinner removed and the
\* results area holding results or exactly one error pane, whether it
\* renders, warns that no plan or no metric is selected (before any query
\* is made) or meets a failure of the query source; the dashboard page
\* stays, the store and the registry are unchanged, and load_data can be
\* run again.
C22_LoadSettles ==
    [][ \A u \in UISessions :
          load_data(u) =>
              /\ Settled(page'[u].results)
              /\ page'[u].results \in {<<"No Plans Selected">>, <<"No Metrics Selected">>}
                    => page'[u].queries = 0
              /\ page'[u].view = "icarus"
              /\ session_store' = session_store
              /\ sessions' = sessions
              /\ \A w \in UISessions \ {u} : page'[w] = page[w]
      ]_vars

\* a run that failed in the chart queries, after its tables were in the
\* results area: the error pane alone is shown, on the dashboard page
C22_Witness ==
    \E u \in UISessions :
        /\ last_load # None
        /\ TheValue(last_load).ui = u
        /\ page[u].view = "icarus"
        /\ page[u].results = <<"Error Loading Data">>
        /\ page[u].queries = 3
        /\ HasSession(u)

=============================================================================
